---- MODULE Spec2Model ----
(***************************************************************************)
(* Model of the storage-consistency-actions daemon                         *)
(* (lib/rucio/daemons/storage/consistency/actions.py).                     *)
(*                                                                         *)
(* The scan directory is a set of runs; a run is named by the tokens of    *)
(* its file name in front of the kind token:                               *)
(*     <rse tokens> \o <<YYYY, MM, DD, HH, mm>>                            *)
(* and owns a status document (<run>_stats.json), a dark list              *)
(* (<run>_D.list), a missing list (<run>_M.list) and, once cmp2dark has    *)
(* run, a deletion list (<run>_DeletionList.csv).                          *)
(*                                                                         *)
(* Abstractions: wall-clock fields (start_time, end_time, elapsed), log    *)
(* lines and metric emissions are left out; they never gate control flow.  *)
(* Fractions are kept as <<numerator, denominator>> and compared by cross  *)
(* multiplication, which agrees with the float comparison of the source    *)
(* for the small counts used here.                                         *)
(***************************************************************************)
EXTENDS Integers, Sequences, FiniteSets, TLC

(***************************************************************************)
(* Bounds of the model.                                                    *)
(***************************************************************************)
MaxDay == 3
MaxScans == 1
MaxLen == 2

(***************************************************************************)
(* File names.                                                             *)
(***************************************************************************)
HoursPerDay == 24
MinutesPerHour == 60

Digits2 == <<"00", "01", "02", "03", "04", "05", "06", "07", "08", "09",
             "10", "11", "12", "13", "14", "15", "16", "17", "18", "19">>

\* %d / %H / %M formatting of a number below 20 as two digits
Fmt2(n) == Digits2[n + 1]

\* the reverse conversion done by strptime on one two-digit field
Int2(s) ==
    [d \in {Digits2[i] : i \in DOMAIN Digits2} |->
        CHOOSE n \in 0..(Len(Digits2) - 1) : Digits2[n + 1] = d][s]

\* the five timestamp tokens the scanner puts into a file name; a timestamp
\* is <<day, hour>> of January 2021, minute 00
TsTokens(ts) == <<"2021", "01", Fmt2(ts[1]), Fmt2(ts[2]), "00">>

\* <rse>_%Y_%m_%d_%H_%M: the name of a run of endpoint rse (a token sequence)
RunName(rse, ts) == rse \o TsTokens(ts)

\* the file <run>_stats.json
StatsFile(run) == [stem |-> run \o <<"stats">>, ext |-> "json"]

\* fn.rsplit(".", 1); parts[-1]; parts[-6:-1]; parts[:-6]
parse_filename(fn) ==
    LET parts == fn.stem
        n == Len(parts)
    IN  [rse |-> SubSeq(parts, 1, n - 6),
         timestamp |-> SubSeq(parts, n - 5, n - 1),
         typ |-> parts[n],
         ext |-> fn.ext]

\* datetime.strptime(timestamp, '%Y_%m_%d_%H_%M'), in minutes since
\* 2021-01-01 00:00 (all runs of the model lie in January 2021)
strptime(timestamp) ==
    ((Int2(timestamp[3]) - 1) * HoursPerDay + Int2(timestamp[4])) * MinutesPerHour
        + Int2(timestamp[5])

\* (reftime - filetime).days: timedelta.days is the floor of the difference
timedelta_days(reftime, filetime) ==
    (reftime - filetime) \div (HoursPerDay * MinutesPerHour)

\* glob(f"{path}/{rse}_*_stats.json") over the stats files of the directory:
\* the name starts with the tokens of rse followed by an underscore
IsPrefix(s, t) == Len(s) <= Len(t) /\ SubSeq(t, 1, Len(s)) = s
glob_stats(dir, rse) == {run \in dir : IsPrefix(rse, run)}

\* sorted() compares the path strings; the paths of one endpoint differ only
\* in their zero-padded timestamp fields, so the string order is the order
\* of the timestamps
PathLess(a, b) ==
    strptime(parse_filename(StatsFile(a)).timestamp)
        < strptime(parse_filename(StatsFile(b)).timestamp)

SortAsc(S) ==
    LET sorted[T \in SUBSET S] ==
            IF T = {} THEN <<>>
            ELSE LET m == CHOOSE x \in T : \A y \in T \ {x} : PathLess(x, y)
                 IN  <<m>> \o sorted[T \ {m}]
    IN  sorted[S]

Reverse(s) == [i \in 1..Len(s) |-> s[Len(s) + 1 - i]]


(***************************************************************************)
(* Data of the model.                                                      *)
(***************************************************************************)
\* the configured endpoints, in the order of the rses argument; the second
\* name is the first one followed by an underscore and a further token
RSE_X == <<"X">>
RSE_XY == <<"X", "Y">>
RSES == <<RSE_X, RSE_XY>>

\* None (no comparison run)
None == <<>>

\* a line of a list file: a path name, possibly followed by blanks
Names == 1..3
Line(n) == [name |-> n, pad |-> FALSE]
Padded(n) == [name |-> n, pad |-> TRUE]

\* the line as it is read, blanks kept
strip_none(line) == line

\* line.strip()
strip(line) == [line EXCEPT !.pad = FALSE]

\* the dark lists and missing lists the scanner may have written
DarkLists == {<<Line(1), Line(2)>>, <<Padded(2), Line(3)>>}
MissLists == {<<Line(1)>>, <<Line(2), Line(1)>>}

\* the phase records the scanner may have written: scanner.total_files,
\* dbdump_before.files, dbdump_after.files
ScannerDocs ==
    { [scanner |-> [total_files |-> 0]],
      [scanner |-> [total_files |-> 3], dbdump_before |-> [files |-> 2],
       dbdump_after |-> [files |-> 4]],
      [scanner |-> [total_files |-> 8], dbdump_before |-> [files |-> 3]] }

\* the thresholds, as <<numerator, denominator>>
Half == <<1, 2>>

\* the timestamps a scan can carry
Hours == {0, 12}
Timestamps == (1..MaxDay) \X Hours

\* names bound at module level of actions.py that the functions look up as
\* globals (the imports, graceful_stop and the functions themselves)
ModuleGlobals ==
    {"graceful_stop", "declare_bad_file_replicas", "Stats", "write_stats",
     "cmp2dark", "parse_filename", "list_cc_scanned_rses", "list_runs_by_age",
     "list_runs", "list_unprocessed_runs", "was_cc_attempted",
     "was_cc_processed", "process_dark_files", "process_miss_files",
     "deckard", "deckard_loop", "actions_loop", "stop", "run"}

(***************************************************************************)
(* State.                                                                  *)
(***************************************************************************)
VARIABLES
    stats,          \* run -> status document (<run>_stats.json), a dict
    lists,          \* run -> [D |-> dark list, M |-> missing list]
    dellist,        \* run -> <run>_DeletionList.csv, for the runs that have one
    quarantined,    \* the calls of add_quarantined_replicas made so far
    invalidated,    \* the calls of declare_bad_file_replicas made so far
    graceful_stop,  \* the threading.Event
    cfg,            \* the arguments of run(): once, force_proceed, dark_min_age
    scans,          \* number of scans written since the daemon started
    active,         \* the daemon instances that exist
    pc,             \* instance -> position in actions_loop
    loc,            \* instance -> local variables of the running functions
    alive,          \* instance -> number of heartbeat records registered
    ret             \* the outcome of the last direct call of a function

vars == <<stats, lists, dellist, quarantined, invalidated, graceful_stop, cfg,
          scans, active, pc, loc, alive, ret>>

Instances == {1, 2}

(***************************************************************************)
(* Dicts.                                                                  *)
(***************************************************************************)
\* dict.update(other)
dict_update(d, other) ==
    [k \in DOMAIN d \cup DOMAIN other |-> IF k \in DOMAIN other THEN other[k] ELSE d[k]]

\* the content of a status file is the document it holds; two contents hold
\* none: the file of size 0 and the file whose text is not JSON
ZeroByte == [st_size |-> 0]
Garbage == [not_json |-> TRUE]

\* os.stat(path).st_size > 0
nonempty(content) == content # ZeroByte

\* json.loads(text) raises JSONDecodeError
json_loads_raises(content) == content \in {ZeroByte, Garbage}

\* Stats.save parsing the text as it is, without the "or" of line 162
Stats_save_base_strict(content) == content

\* data = json.loads(data or "{}") in Stats.save: the empty text stands for
\* the empty document
Stats_save_base(content) == IF content = ZeroByte THEN <<>> ELSE content

\* Stats.save raises: the text of the file is not empty and not JSON
Stats_save_raises(st, path) == json_loads_raises(Stats_save_base(st[path]))

\* a save that merges the fields of a phase document into the document the
\* file has under the same key
Stats_save_merge(st, path, data) ==
    LET base == Stats_save_base(st[path])
    IN  [st EXCEPT ![path] =
            [k \in DOMAIN base \cup DOMAIN data |->
                IF k \in DOMAIN base /\ k \in DOMAIN data THEN dict_update(base[k], data[k])
                ELSE IF k \in DOMAIN data THEN data[k]
                ELSE base[k]]]

\* Stats.save for a Stats object whose Data is data: read the file, update
\* the document with Data, write it back
Stats_save(st, path, data) ==
    [st EXCEPT ![path] = dict_update(Stats_save_base(st[path]), data)]

(***************************************************************************)
(* Snapshot store queries.                                                 *)
(***************************************************************************)
\* the runs that have a stats file
Dir(st) == DOMAIN st

list_cc_scanned_rses(st) ==
    {parse_filename(StatsFile(run)).rse : run \in Dir(st)}

\* the files of size above 0 of exactly this endpoint among the matches of
\* the glob
RunsOf(st, rse) ==
    {run \in glob_stats(Dir(st), rse) :
        nonempty(st[run]) /\ parse_filename(StatsFile(run)).rse = rse}

\* the slice taken from the front: sorted(runs, reverse=False)[:nlast]
list_runs_first(st, rse, nlast) ==
    LET runs == SortAsc(RunsOf(st, rse))
        n == IF nlast = 0 THEN Len(runs) ELSE nlast
    IN  SubSeq(runs, 1, IF Len(runs) > n THEN n ELSE Len(runs))

\* sorted(runs, reverse=False)[-nlast:]
list_runs(st, rse, nlast) ==
    LET runs == SortAsc(RunsOf(st, rse))
        n == IF nlast = 0 THEN Len(runs) ELSE nlast
    IN  SubSeq(runs, IF Len(runs) > n THEN Len(runs) - n + 1 ELSE 1, Len(runs))

\* the age in days of a run relative to the reference file
fileagedays(run, reffile) ==
    timedelta_days(strptime(parse_filename(StatsFile(reffile)).timestamp),
                   strptime(parse_filename(StatsFile(run)).timestamp))

\* the keys in the order of sorted(runs.items()) without reverse=True
list_runs_by_age_ascending(st, rse, reffile) == SortAsc(RunsOf(st, rse))

\* the keys of the dict returned by list_runs_by_age, in its iteration
\* order: sorted(runs.items(), reverse=True) sorts by path, last path first
list_runs_by_age(st, rse, reffile) == Reverse(SortAsc(RunsOf(st, rse)))

\* the test looking at the cc_dark section only
was_cc_attempted_dark(st, run) == "cc_dark" \in DOMAIN st[run]

\* the test that counts a run as attempted only when a phase has ended:
\* a record with status started does not count
was_cc_attempted_finished(st, run) ==
    \/ "cc_dark" \in DOMAIN st[run] /\ st[run]["cc_dark"].status \in {"done", "ABORTED"}
    \/ "cc_miss" \in DOMAIN st[run] /\ st[run]["cc_miss"].status \in {"done", "ABORTED"}

\* a test that never finds a run attempted
was_cc_attempted_never(st, run) == FALSE

was_cc_attempted(st, run) == "cc_dark" \in DOMAIN st[run] \/ "cc_miss" \in DOMAIN st[run]

was_cc_processed(st, run) ==
    \/ "cc_dark" \in DOMAIN st[run] /\ st[run]["cc_dark"].status = "done"
    \/ "cc_miss" \in DOMAIN st[run] /\ st[run]["cc_miss"].status = "done"

\* the timestamps of the runs without cc_dark and cc_miss section
list_unprocessed_runs(st, rse) ==
    {parse_filename(StatsFile(run)).timestamp :
        run \in {r \in RunsOf(st, rse) : ~was_cc_attempted(st, r)}}

\* the selection with the comparison turned round: d[k] < minagedark
oldenough_runs_younger(st, rse, latest_run, minagedark) ==
    LET d == list_runs_by_age(st, rse, latest_run)
        Young(k) == fileagedays(k, latest_run) < minagedark
    IN  SelectSeq(d, Young)

\* [k for k in d if d[k] > minagedark]
oldenough_runs(st, rse, latest_run, minagedark) ==
    LET d == list_runs_by_age(st, rse, latest_run)
        Old(k) == fileagedays(k, latest_run) > minagedark
    IN  SelectSeq(d, Old)

\* max(scanner_files, dbdump_before_files, dbdump_after_files)
Max3(a, b, c) == IF a >= b /\ a >= c THEN a ELSE IF b >= c THEN b ELSE c
max_files_at_site(doc) ==
    Max3(IF "scanner" \in DOMAIN doc THEN doc["scanner"].total_files ELSE 0,
         IF "dbdump_before" \in DOMAIN doc THEN doc["dbdump_before"].files ELSE 0,
         IF "dbdump_after" \in DOMAIN doc THEN doc["dbdump_after"].files ELSE 0)

(***************************************************************************)
(* Set reconciler.                                                         *)
(***************************************************************************)
Range(s) == {s[i] : i \in 1..Len(s)}

RECURSIVE SortNames(_)
SortNames(S) ==
    IF S = {} THEN <<>>
    ELSE LET m == CHOOSE x \in S : \A y \in S : x.name <= y.name
         IN  <<m>> \o SortNames(S \ {m})

\* the reconciler with the union in place of the intersection
cmp2dark_out_union(new_list, old_list) ==
    LET a_set == {strip(l) : l \in Range(new_list)}
        b_set == {strip(l) : l \in Range(old_list)}
    IN  SortNames(a_set \cup b_set)

\* the lines cmp2dark writes to comm_list: sorted(list(a_set & b_set))
cmp2dark_out(new_list, old_list) ==
    LET a_set == {strip(l) : l \in Range(new_list)}
        b_set == {strip(l) : l \in Range(old_list)}
    IN  SortNames(a_set \cap b_set)


(***************************************************************************)
(* Initial state.                                                          *)
(***************************************************************************)
\* the local variables of an instance that is not inside deckard
NoLocals ==
    [idx |-> 0, rse |-> None, latest_run |-> None, oldenough_run |-> None,
     max_files_at_site |-> 0, cc_stats |-> <<>>, dark_files |-> 0,
     rows |-> <<>>, count |-> 0, issued |-> <<>>, exc |-> "none"]

\* no function of the module has been called directly
NoCall == [call |-> "none", args |-> <<>>, raised |-> "none", value |-> <<>>]

TsLess(a, b) == a[1] < b[1] \/ (a[1] = b[1] /\ a[2] < b[2])

\* what the scanner leaves behind for one run
ScanDoc == CHOOSE d \in ScannerDocs : max_files_at_site(d) = 4
ScanDark == CHOOSE l \in DarkLists : Len(l) = 2 /\ \A i \in 1..2 : ~l[i].pad
ScanMiss == CHOOSE l \in MissLists : Len(l) = 1

\* the histories of the first endpoint, the data of the newest run free:
\* no run; one run at midnight of some day; a run at noon of the first day
\* and a later one (12, 24, 36, 48, ... hours later); three runs, the two
\* older ones on the first day and the newest on the last day
FirstNoon == <<1, 12>>
HistoriesX ==
    {<<>>}
    \cup { [r \in {RunName(RSE_X, t)} |-> [doc |-> d, D |-> dl, M |-> ml]] :
            t \in {t \in Timestamps : t[2] = 0},
            d \in ScannerDocs, dl \in DarkLists, ml \in MissLists }
    \cup UNION { { (RunName(RSE_X, FirstNoon) :> [doc |-> ScanDoc, D |-> ScanDark, M |-> ScanMiss])
                   @@ (RunName(RSE_X, t) :> [doc |-> d, D |-> dl, M |-> ml]) :
                     d \in ScannerDocs, dl \in DarkLists, ml \in MissLists } :
                 t \in {t \in Timestamps : TsLess(FirstNoon, t)} }
    \cup { (RunName(RSE_X, <<1, 0>>) :> [doc |-> ScanDoc, D |-> ScanDark, M |-> ScanMiss])
           @@ (RunName(RSE_X, FirstNoon) :> [doc |-> ScanDoc, D |-> ScanDark, M |-> ScanMiss])
           @@ (RunName(RSE_X, <<MaxDay, 12>>) :> [doc |-> d, D |-> dl, M |-> ml]) :
             d \in ScannerDocs, dl \in DarkLists, ml \in MissLists }

\* the history of the second endpoint: one run
HistoriesXY ==
    {[r \in {RunName(RSE_XY, <<1, 0>>)} |-> [doc |-> ScanDoc, D |-> ScanDark, M |-> ScanMiss]]}

MinAges == {1}

Init0 ==
    /\ \E hx \in HistoriesX, hy \in HistoriesXY :
        LET h == hx @@ hy
        IN  /\ stats = [r \in DOMAIN h |-> h[r].doc]
            /\ lists = [r \in DOMAIN h |-> [D |-> h[r].D, M |-> h[r].M]]
    /\ dellist = <<>>
    /\ quarantined = {}
    /\ invalidated = {}
    /\ graceful_stop = FALSE
    /\ cfg \in [once : BOOLEAN, force_proceed : BOOLEAN, dark_min_age : MinAges,
                dark_threshold_percent : {Half}, miss_threshold_percent : {Half}]
    /\ scans = 0
    /\ loc = [p \in Instances |-> NoLocals]
    /\ ret = NoCall

\* one daemon instance with one thread (threads = 1 in run())
Init ==
    /\ Init0
    /\ active = {1}
    /\ pc = [p \in Instances |-> IF p = 1 THEN "start" ELSE "off"]
    /\ alive = [p \in Instances |-> [live |-> FALSE, died |-> 0]]


(***************************************************************************)
(* actions_loop, deckard_loop, deckard.                                    *)
(***************************************************************************)
Set(p, fields) == [loc EXCEPT ![p] = dict_update(loc[p], fields)]

\* live(...); graceful_stop.wait(1)
Start(p) ==
    /\ pc[p] = "start"
    /\ alive' = [alive EXCEPT ![p].live = TRUE]
    /\ pc' = [pc EXCEPT ![p] = "loop"]
    /\ UNCHANGED <<stats, lists, dellist, quarantined, invalidated, graceful_stop,
                   cfg, ret, scans, active, loc>>

\* the loop test without the flag: while True
LoopTest_noflag(p) ==
    /\ pc[p] = "loop"
    /\ pc' = [pc EXCEPT ![p] = "for"]
    /\ loc' = [loc EXCEPT ![p] = [NoLocals EXCEPT !.idx = 1]]
    /\ UNCHANGED <<stats, lists, dellist, quarantined, invalidated, graceful_stop,
                   cfg, ret, scans, active, alive>>

\* while not graceful_stop.is_set(): try: live(...); deckard_loop(...)
LoopTest(p) ==
    /\ pc[p] = "loop"
    /\ IF graceful_stop
       THEN /\ pc' = [pc EXCEPT ![p] = "die"]
            /\ UNCHANGED loc
       ELSE /\ pc' = [pc EXCEPT ![p] = "for"]
            /\ loc' = [loc EXCEPT ![p] = [NoLocals EXCEPT !.idx = 1]]
    /\ UNCHANGED <<stats, lists, dellist, quarantined, invalidated, graceful_stop,
                   cfg, ret, scans, active, alive>>

\* the gate asking was_cc_processed in place of was_cc_attempted
deckard_gate_processed(st, rse, force_proceed, minagedark) ==
    IF rse \in list_cc_scanned_rses(st)
    THEN LET latest_run == list_runs(st, rse, 1)[1]
             max_files == max_files_at_site(st[latest_run])
             old == oldenough_runs(st, rse, latest_run, minagedark)
         IN  IF max_files > 0 /\ (was_cc_processed(st, latest_run) = FALSE
                                  \/ force_proceed = TRUE)
             THEN IF Len(old) > 0
                  THEN [next |-> "process_dark_files", latest_run |-> latest_run,
                        max_files_at_site |-> max_files, oldenough_run |-> old[1]]
                  ELSE [next |-> "process_miss_files", latest_run |-> latest_run,
                        max_files_at_site |-> max_files, oldenough_run |-> None]
             ELSE [next |-> "return", latest_run |-> latest_run,
                   max_files_at_site |-> max_files, oldenough_run |-> None]
    ELSE [next |-> "return", latest_run |-> None, max_files_at_site |-> 0,
          oldenough_run |-> None]

\* the gate without the test max_files_at_site > 0
deckard_gate_nozero(st, rse, force_proceed, minagedark) ==
    IF rse \in list_cc_scanned_rses(st)
    THEN LET latest_run == list_runs(st, rse, 1)[1]
             max_files == max_files_at_site(st[latest_run])
             old == oldenough_runs(st, rse, latest_run, minagedark)
         IN  IF (was_cc_attempted(st, latest_run) = FALSE \/ force_proceed = TRUE)
             THEN IF Len(old) > 0
                  THEN [next |-> "process_dark_files", latest_run |-> latest_run,
                        max_files_at_site |-> max_files, oldenough_run |-> old[1]]
                  ELSE [next |-> "process_miss_files", latest_run |-> latest_run,
                        max_files_at_site |-> max_files, oldenough_run |-> None]
             ELSE [next |-> "return", latest_run |-> latest_run,
                   max_files_at_site |-> max_files, oldenough_run |-> None]
    ELSE [next |-> "return", latest_run |-> None, max_files_at_site |-> 0,
          oldenough_run |-> None]

\* what deckard decides for endpoint rse before it calls process_dark_files
\* or process_miss_files: the next position and the locals it has set
deckard_gate(st, rse, force_proceed, minagedark) ==
    IF rse \in list_cc_scanned_rses(st)
    THEN LET latest_run == list_runs(st, rse, 1)[1]
             max_files == max_files_at_site(st[latest_run])
             old == oldenough_runs(st, rse, latest_run, minagedark)
         IN  IF max_files > 0 /\ (was_cc_attempted(st, latest_run) = FALSE
                                  \/ force_proceed = TRUE)
             THEN IF Len(old) > 0
                  THEN [next |-> "process_dark_files", latest_run |-> latest_run,
                        max_files_at_site |-> max_files, oldenough_run |-> old[1]]
                  ELSE [next |-> "process_miss_files", latest_run |-> latest_run,
                        max_files_at_site |-> max_files, oldenough_run |-> None]
             ELSE [next |-> "return", latest_run |-> latest_run,
                   max_files_at_site |-> max_files, oldenough_run |-> None]
    ELSE [next |-> "return", latest_run |-> None, max_files_at_site |-> 0,
          oldenough_run |-> None]

\* for rse in rses: deckard(rse, ...), up to the call of a phase
Deckard(p) ==
    /\ pc[p] = "for"
    /\ loc[p].idx <= Len(RSES)
    /\ \E g \in {deckard_gate(stats, RSES[loc[p].idx], cfg.force_proceed,
                              cfg.dark_min_age)} :
           IF g.next = "return"
           THEN /\ loc' = [loc EXCEPT ![p] = [NoLocals EXCEPT !.idx = loc[p].idx + 1]]
                /\ UNCHANGED pc
           ELSE /\ loc' = Set(p, [rse |-> RSES[loc[p].idx],
                                  latest_run |-> g.latest_run,
                                  oldenough_run |-> g.oldenough_run,
                                  max_files_at_site |-> g.max_files_at_site,
                                  issued |-> <<>>])
                /\ pc' = [pc EXCEPT ![p] = g.next]
    /\ UNCHANGED <<stats, lists, dellist, quarantined, invalidated, graceful_stop,
                   cfg, ret, scans, active, alive>>

\* the for loop is exhausted: daemon_sleep(...), then "if once: break"
Sleep(p) ==
    /\ pc[p] = "for"
    /\ loc[p].idx > Len(RSES)
    /\ pc' = [pc EXCEPT ![p] = IF cfg.once THEN "die" ELSE "loop"]
    /\ UNCHANGED <<stats, lists, dellist, quarantined, invalidated, graceful_stop,
                   cfg, ret, scans, active, loc, alive>>

\* a handler inside the for loop: the loop goes on with the next endpoint
Except_resume(p) ==
    /\ pc[p] = "except"
    /\ pc' = [pc EXCEPT ![p] = "for"]
    /\ loc' = [loc EXCEPT ![p] = [NoLocals EXCEPT !.idx = loc[p].idx + 1]]
    /\ UNCHANGED <<stats, lists, dellist, quarantined, invalidated, graceful_stop,
                   cfg, ret, scans, active, alive>>

\* a handler that goes back to the loop test without the test of once
Except_nobreak(p) ==
    /\ pc[p] = "except"
    /\ pc' = [pc EXCEPT ![p] = "loop"]
    /\ loc' = [loc EXCEPT ![p] = [NoLocals EXCEPT !.idx = loc[p].idx]]
    /\ UNCHANGED <<stats, lists, dellist, quarantined, invalidated, graceful_stop,
                   cfg, ret, scans, active, alive>>

\* except Exception as e: ...; then "if once: break"
Except(p) ==
    /\ pc[p] = "except"
    /\ pc' = [pc EXCEPT ![p] = IF cfg.once THEN "die" ELSE "loop"]
    /\ loc' = [loc EXCEPT ![p] = [NoLocals EXCEPT !.idx = loc[p].idx]]
    /\ UNCHANGED <<stats, lists, dellist, quarantined, invalidated, graceful_stop,
                   cfg, ret, scans, active, alive>>

\* die(...)
Die(p) ==
    /\ pc[p] = "die"
    /\ alive' = [alive EXCEPT ![p] = [live |-> FALSE, died |-> alive[p].died + 1]]
    /\ pc' = [pc EXCEPT ![p] = "terminated"]
    /\ UNCHANGED <<stats, lists, dellist, quarantined, invalidated, graceful_stop,
                   cfg, ret, scans, active, loc>>

\* stop(): graceful_stop.set()
Stop ==
    /\ ~graceful_stop
    /\ graceful_stop' = TRUE
    /\ UNCHANGED <<stats, lists, dellist, quarantined, invalidated, cfg, ret, scans,
                   active, pc, loc, alive>>


(***************************************************************************)
(* Safeguard.                                                              *)
(***************************************************************************)
\* the comparison with <= in place of <
below_fraction_le(count, max_files, maxfraction) ==
    count * maxfraction[2] <= maxfraction[1] * max_files

\* count / max_files_at_site < maxfraction
below_fraction(count, max_files, maxfraction) ==
    count * maxfraction[2] < maxfraction[1] * max_files

\* a safeguard that lets every batch through
safeguard_always(count, max_files, maxfraction) == "proceed"

\* "count/max < maxfraction or force_proceed is True" inside
\* process_dark_files and process_miss_files: force_proceed is not a
\* parameter or local of these functions, so the name is looked up among the
\* module globals, and only when the left operand is false
safeguard(count, max_files, maxfraction) ==
    IF below_fraction(count, max_files, maxfraction) THEN "proceed"
    ELSE IF "force_proceed" \in ModuleGlobals THEN "abort"
    ELSE "NameError"

\* "%3.2f%% dark" % (100.*count/max_files): the percentage in hundredths
\* of a percent and the word that follows it
aborted_reason(count, max_files, what) ==
    [hundredths |-> (10000 * count) \div max_files, what |-> what]

(***************************************************************************)
(* process_dark_files.                                                     *)
(***************************************************************************)

\* the dark phase keeping its started record in memory: nothing is written
\* to the status file before the rows are processed
DarkStart_deferred(p) ==
    /\ pc[p] = "process_dark_files"
    /\ loc' = Set(p, [cc_stats |-> [initial_dark_files |-> 0, confirmed_dark_files |-> 0,
                                    x_check_run |-> loc[p].oldenough_run,
                                    status |-> "started"]])
    /\ pc' = [pc EXCEPT ![p] = "cmp2dark"]
    /\ UNCHANGED <<stats, lists, dellist, quarantined, invalidated, graceful_stop, cfg,
                   ret, scans, active, alive>>

\* lines 346-358: the cc_dark section with status started
DarkStart(p) ==
    /\ pc[p] = "process_dark_files"
    /\ LET cc_stats == [initial_dark_files |-> 0, confirmed_dark_files |-> 0,
                        x_check_run |-> loc[p].oldenough_run, status |-> "started"]
       IN  /\ stats' = Stats_save(stats, loc[p].latest_run, [cc_dark |-> cc_stats])
           /\ loc' = Set(p, [cc_stats |-> cc_stats])
    /\ pc' = [pc EXCEPT ![p] = "cmp2dark"]
    /\ UNCHANGED <<lists, dellist, quarantined, invalidated, graceful_stop, cfg, ret,
                   scans, active, alive>>

\* cmp2dark(new_list, old_list, comm_list, stats_file) with its own Stats
\* object, and the two line counts of lines 378-379
Cmp2dark(p) ==
    /\ pc[p] = "cmp2dark"
    /\ LET latest_run == loc[p].latest_run
           oldenough_run == loc[p].oldenough_run
           my_stats == [new_list |-> latest_run, old_list |-> oldenough_run,
                        out_list |-> latest_run, status |-> "started"]
           out == cmp2dark_out(lists[latest_run].D, lists[oldenough_run].D)
           st1 == Stats_save(stats, latest_run, [cmp2dark |-> my_stats])
       IN  /\ dellist' = (latest_run :> out) @@ dellist
           /\ stats' = Stats_save(st1, latest_run,
                          [cmp2dark |-> [my_stats EXCEPT !.status = "done"]])
           /\ loc' = Set(p, [dark_files |-> Len(lists[latest_run].D)])
    /\ pc' = [pc EXCEPT ![p] = "dark_safeguard"]
    /\ UNCHANGED <<lists, quarantined, invalidated, graceful_stop, cfg, ret, scans,
                   active, alive>>

\* lines 395-398 and, for the abort branch, 442-458
DarkSafeguard(p) ==
    /\ pc[p] = "dark_safeguard"
    /\ LET latest_run == loc[p].latest_run
           confirmed_dark_files == Len(dellist[latest_run])
           verdict == safeguard(confirmed_dark_files, loc[p].max_files_at_site,
                                cfg.dark_threshold_percent)
       IN  IF verdict = "proceed"
           THEN /\ loc' = Set(p, [rows |-> dellist[latest_run], count |-> 0])
                /\ pc' = [pc EXCEPT ![p] = "dark_rows"]
                /\ UNCHANGED stats
           ELSE IF verdict = "abort"
           THEN LET cc_stats == dict_update(loc[p].cc_stats,
                        [initial_dark_files |-> loc[p].dark_files,
                         confirmed_dark_files |-> 0,
                         status |-> "ABORTED",
                         aborted_reason |-> aborted_reason(confirmed_dark_files,
                                               loc[p].max_files_at_site, "dark")])
                IN  /\ stats' = Stats_save(stats, latest_run, [cc_dark |-> cc_stats])
                    /\ loc' = Set(p, [cc_stats |-> <<>>, dark_files |-> 0])
                    /\ pc' = [pc EXCEPT ![p] = "process_miss_files"]
           ELSE /\ loc' = Set(p, [exc |-> "NameError"])
                /\ pc' = [pc EXCEPT ![p] = "except"]
                /\ UNCHANGED stats
    /\ UNCHANGED <<lists, dellist, quarantined, invalidated, graceful_stop, cfg, ret,
                   scans, active, alive>>

\* the outcomes of the collaborator calls made for one row
DarkOutcomes == {"ok", "resolve_error", "quarantine_error"}

\* the iteration with a handler around the row: a failed row is skipped and
\* the loop goes on
DarkRow_continue(p) ==
    /\ pc[p] = "dark_rows"
    /\ loc[p].rows # <<>>
    /\ \E outcome \in DarkOutcomes :
        LET name == Head(loc[p].rows)
            request == [rse |-> loc[p].rse, name |-> name,
                        latest_run |-> loc[p].latest_run,
                        oldenough_run |-> loc[p].oldenough_run]
            call == [op |-> "quarantine", name |-> name]
        IN  /\ quarantined' = IF outcome = "resolve_error" THEN quarantined
                              ELSE quarantined \cup {request}
            /\ loc' = Set(p, [rows |-> Tail(loc[p].rows),
                              count |-> IF outcome = "ok" THEN loc[p].count + 1
                                        ELSE loc[p].count,
                              issued |-> IF outcome = "resolve_error" THEN loc[p].issued
                                         ELSE Append(loc[p].issued, call)])
    /\ UNCHANGED <<stats, lists, dellist, invalidated, graceful_stop, cfg, ret, scans,
                   active, alive, pc>>

\* one iteration of "for name, in reader" (lines 408-427): get_rse_id,
\* get_rse_info, lfns2pfns and parse_pfns resolve the location,
\* add_quarantined_replicas requests the quarantine
DarkRow(p) ==
    /\ pc[p] = "dark_rows"
    /\ loc[p].rows # <<>>
    /\ \E outcome \in DarkOutcomes :
        LET name == Head(loc[p].rows)
            request == [rse |-> loc[p].rse, name |-> name,
                        latest_run |-> loc[p].latest_run,
                        oldenough_run |-> loc[p].oldenough_run]
        IN  /\ quarantined' = IF outcome = "resolve_error" THEN quarantined
                              ELSE quarantined \cup {request}
            /\ IF outcome = "ok"
               THEN /\ loc' = Set(p, [rows |-> Tail(loc[p].rows),
                                      count |-> loc[p].count + 1,
                                      issued |-> Append(loc[p].issued,
                                                   [op |-> "quarantine", name |-> name])])
                    /\ UNCHANGED pc
               ELSE /\ loc' = Set(p, [exc |-> outcome,
                                      issued |-> IF outcome = "resolve_error"
                                                 THEN loc[p].issued
                                                 ELSE Append(loc[p].issued,
                                                   [op |-> "quarantine", name |-> name])])
                    /\ pc' = [pc EXCEPT ![p] = "except"]
    /\ UNCHANGED <<stats, lists, dellist, invalidated, graceful_stop, cfg, ret, scans,
                   active, alive>>

\* the end of the dark phase recording the number of dark files of the
\* latest run as the number of confirmed ones
DarkDone_initial(p) ==
    /\ pc[p] = "dark_rows"
    /\ loc[p].rows = <<>>
    /\ LET cc_stats == dict_update(loc[p].cc_stats,
                [initial_dark_files |-> loc[p].dark_files,
                 confirmed_dark_files |-> loc[p].dark_files,
                 status |-> "done"])
       IN  stats' = Stats_save(stats, loc[p].latest_run, [cc_dark |-> cc_stats])
    /\ loc' = Set(p, [cc_stats |-> <<>>, dark_files |-> 0, count |-> 0])
    /\ pc' = [pc EXCEPT ![p] = "process_miss_files"]
    /\ UNCHANGED <<lists, dellist, quarantined, invalidated, graceful_stop, cfg, ret,
                   scans, active, alive>>

\* lines 429-440: the reader is exhausted, the cc_dark section becomes done
DarkDone(p) ==
    /\ pc[p] = "dark_rows"
    /\ loc[p].rows = <<>>
    /\ LET cc_stats == dict_update(loc[p].cc_stats,
                [initial_dark_files |-> loc[p].dark_files,
                 confirmed_dark_files |-> loc[p].count,
                 status |-> "done"])
       IN  stats' = Stats_save(stats, loc[p].latest_run, [cc_dark |-> cc_stats])
    /\ loc' = Set(p, [cc_stats |-> <<>>, dark_files |-> 0, count |-> 0])
    /\ pc' = [pc EXCEPT ![p] = "process_miss_files"]
    /\ UNCHANGED <<lists, dellist, quarantined, invalidated, graceful_stop, cfg, ret,
                   scans, active, alive>>


(***************************************************************************)
(* process_miss_files.                                                     *)
(***************************************************************************)
\* lines 479-491: the cc_miss section with status started
MissStart(p) ==
    /\ pc[p] = "process_miss_files"
    /\ LET cc_stats == [initial_miss_files |-> 0, confirmed_miss_files |-> 0,
                        x_check_run |-> loc[p].oldenough_run, status |-> "started"]
       IN  /\ stats' = Stats_save(stats, loc[p].latest_run, [cc_miss |-> cc_stats])
           /\ loc' = Set(p, [cc_stats |-> cc_stats])
    /\ pc' = [pc EXCEPT ![p] = "miss_safeguard"]
    /\ UNCHANGED <<lists, dellist, quarantined, invalidated, graceful_stop, cfg, ret,
                   scans, active, alive>>

\* lines 500-509 and, for the abort branch, 543-560
MissSafeguard(p) ==
    /\ pc[p] = "miss_safeguard"
    /\ LET latest_run == loc[p].latest_run
           miss_files == Len(lists[latest_run].M)
           verdict == safeguard(miss_files, loc[p].max_files_at_site,
                                cfg.miss_threshold_percent)
       IN  IF verdict = "proceed"
           THEN /\ loc' = Set(p, [rows |-> lists[latest_run].M, count |-> 0])
                /\ pc' = [pc EXCEPT ![p] = "miss_rows"]
                /\ UNCHANGED stats
           ELSE IF verdict = "abort"
           THEN LET cc_stats == dict_update(loc[p].cc_stats,
                        [initial_miss_files |-> miss_files,
                         confirmed_miss_files |-> 0,
                         status |-> "ABORTED",
                         aborted_reason |-> aborted_reason(miss_files,
                                               loc[p].max_files_at_site, "miss")])
                IN  /\ stats' = Stats_save(stats, latest_run, [cc_miss |-> cc_stats])
                    /\ loc' = [loc EXCEPT ![p] = [NoLocals EXCEPT !.idx = loc[p].idx + 1]]
                    /\ pc' = [pc EXCEPT ![p] = "for"]
           ELSE /\ loc' = Set(p, [exc |-> "NameError"])
                /\ pc' = [pc EXCEPT ![p] = "except"]
                /\ UNCHANGED stats
    /\ UNCHANGED <<lists, dellist, quarantined, invalidated, graceful_stop, cfg, ret,
                   scans, active, alive>>

\* the outcomes of the collaborator calls made for one row
MissOutcomes == {"ok", "resolve_error", "invalidation_error"}

\* what __exists_replicas finds for the path: a replica that is not declared
\* bad yet, one that is already declared, or none
ReplicaStates == {"available", "declared", "unknown"}

\* declare_bad_file_replicas (lines 74-127) for one did, given the outcome
\* of its collaborator calls: for a replica that exists and is not declared
\* yet it evaluates models.BadReplicas(...), and models is not a name of the
\* module; for the other replicas it appends to unknown_replicas and returns
declare_bad_file_replicas(replica, outcome) ==
    IF outcome = "ok" /\ replica = "available" /\ "models" \notin ModuleGlobals
    THEN "NameError_models"
    ELSE outcome

\* one iteration of "for name, in reader" (lines 518-528): get_rse_id, then
\* declare_bad_file_replicas; the csv reader hands over the line as it is
MissRow(p) ==
    /\ pc[p] = "miss_rows"
    /\ loc[p].rows # <<>>
    /\ \E outcome \in MissOutcomes, replica \in ReplicaStates :
        LET name == Head(loc[p].rows)
            request == [rse |-> loc[p].rse, name |-> name,
                        latest_run |-> loc[p].latest_run]
            call == [op |-> "invalidate", name |-> name]
            result == IF outcome = "resolve_error" THEN outcome
                      ELSE declare_bad_file_replicas(replica, outcome)
        IN  /\ invalidated' = IF result = "resolve_error" THEN invalidated
                              ELSE invalidated \cup {request}
            /\ IF result = "ok"
               THEN /\ loc' = Set(p, [rows |-> Tail(loc[p].rows),
                                      count |-> loc[p].count + 1,
                                      issued |-> Append(loc[p].issued, call)])
                    /\ UNCHANGED pc
               ELSE /\ loc' = Set(p, [exc |-> result,
                                      issued |-> IF result = "resolve_error"
                                                 THEN loc[p].issued
                                                 ELSE Append(loc[p].issued, call)])
                    /\ pc' = [pc EXCEPT ![p] = "except"]
    /\ UNCHANGED <<stats, lists, dellist, quarantined, graceful_stop, cfg, ret, scans,
                   active, alive>>

\* lines 530-541: the reader is exhausted, the cc_miss section becomes done
\* (the number of invalidated files goes to the key confirmed_miss);
\* process_miss_files and deckard return
MissDone(p) ==
    /\ pc[p] = "miss_rows"
    /\ loc[p].rows = <<>>
    /\ LET cc_stats == dict_update(loc[p].cc_stats,
                [initial_miss_files |-> Len(lists[loc[p].latest_run].M),
                 confirmed_miss |-> loc[p].count,
                 status |-> "done"])
       IN  stats' = Stats_save(stats, loc[p].latest_run, [cc_miss |-> cc_stats])
    /\ loc' = [loc EXCEPT ![p] = [NoLocals EXCEPT !.idx = loc[p].idx + 1]]
    /\ pc' = [pc EXCEPT ![p] = "for"]
    /\ UNCHANGED <<lists, dellist, quarantined, invalidated, graceful_stop, cfg, ret,
                   scans, active, alive>>

(***************************************************************************)
(* The scanner (external): a new run of an endpoint appears, at the first  *)
(* timestamp after every run the endpoint already has.  The daemon looks   *)
(* at the runs of an endpoint only when deckard starts for that endpoint,  *)
(* so the model lets a scan land right before such a visit.  Only the      *)
(* first endpoint is scanned again.                                        *)
(***************************************************************************)
NewScan ==
    /\ scans < MaxScans
    /\ \E p \in active, ts \in Timestamps :
        LET rse == RSES[loc[p].idx]
            run == RunName(rse, ts)
            Later(t) == \A r \in RunsOf(stats, rse) : PathLess(r, RunName(rse, t))
        IN  /\ pc[p] = "for"
            /\ loc[p].idx = 1
            /\ Later(ts)
            /\ \A t \in Timestamps : Later(t) => ~TsLess(t, ts)
            /\ stats' = (run :> ScanDoc) @@ stats
            /\ lists' = (run :> [D |-> ScanDark, M |-> ScanMiss]) @@ lists
    /\ scans' = scans + 1
    /\ UNCHANGED <<dellist, quarantined, invalidated, graceful_stop, cfg, ret, active,
                   pc, loc, alive>>

Next ==
    \/ \E p \in active : Start(p)
    \/ \E p \in active : LoopTest(p)
    \/ \E p \in active : Deckard(p)
    \/ \E p \in active : Sleep(p)
    \/ \E p \in active : Except(p)
    \/ \E p \in active : Die(p)
    \/ \E p \in active : DarkStart(p)
    \/ \E p \in active : Cmp2dark(p)
    \/ \E p \in active : DarkSafeguard(p)
    \/ \E p \in active : DarkRow(p)
    \/ \E p \in active : DarkDone(p)
    \/ \E p \in active : MissStart(p)
    \/ \E p \in active : MissSafeguard(p)
    \/ \E p \in active : MissRow(p)
    \/ \E p \in active : MissDone(p)
    \/ Stop
    \/ NewScan

Spec == Init /\ [][Next]_vars

\* the steps of the thread of instance p
InstanceStep(p) ==
    \/ Start(p) \/ LoopTest(p) \/ Deckard(p) \/ Sleep(p) \/ Except(p) \/ Die(p)
    \/ DarkStart(p) \/ Cmp2dark(p) \/ DarkSafeguard(p) \/ DarkRow(p) \/ DarkDone(p)
    \/ MissStart(p) \/ MissSafeguard(p) \/ MissRow(p) \/ MissDone(p)

\* the daemon started on a directory where the first endpoint has either one
\* run, at midnight of the first day and as the scanner leaves it (the
\* daemon then runs without force_proceed), or a run at noon of the first
\* day and one at noon of the last day
InitLive ==
    /\ Init
    /\ \/ /\ RunsOf(stats, RSE_X) = {RunName(RSE_X, <<1, 0>>)}
          /\ ~cfg.force_proceed
          /\ stats[RunName(RSE_X, <<1, 0>>)] = ScanDoc
          /\ lists[RunName(RSE_X, <<1, 0>>)] = [D |-> ScanDark, M |-> ScanMiss]
       \/ RunsOf(stats, RSE_X) = {RunName(RSE_X, FirstNoon), RunName(RSE_X, <<MaxDay, 12>>)}

\* the thread of a started instance keeps running: every call it makes
\* returns or raises, and daemon_sleep ends after sleep_time or when the
\* flag is set
FairSpec ==
    /\ InitLive
    /\ [][Next]_vars
    /\ \A p \in Instances : WF_vars(p \in active /\ InstanceStep(p))

TypeOK ==
    /\ pc \in [Instances -> {"off", "start", "loop", "for", "except", "die",
                             "terminated", "process_dark_files", "cmp2dark",
                             "dark_safeguard", "dark_rows", "process_miss_files",
                             "miss_safeguard", "miss_rows"}]
    /\ graceful_stop \in BOOLEAN
    /\ scans \in 0..MaxScans
    /\ DOMAIN lists = DOMAIN stats
    /\ DOMAIN dellist \subseteq DOMAIN stats


(***************************************************************************)
(* Vocabulary of the properties, stated on the scanner's data directly     *)
(* (not through parse_filename, strptime or the listing functions).        *)
(***************************************************************************)
\* the runs of endpoint rse and the timestamp of a run
RunsOfEndpoint(rse) == {r \in DOMAIN stats : \E ts \in Timestamps : r = RunName(rse, ts)}
TsOfRun(r) == CHOOSE ts \in Timestamps : \E i \in 1..Len(RSES) : r = RunName(RSES[i], ts)
EndpointOfRun(r) == CHOOSE rse \in Range(RSES) : \E ts \in Timestamps : r = RunName(rse, ts)

\* whole days from the older timestamp to the newer one
AgeDays(old, new) ==
    ((new[1] * HoursPerDay + new[2]) - (old[1] * HoursPerDay + old[2])) \div HoursPerDay

\* the trimmed lines of a run's dark list
DarkSet(r) == {[name |-> l.name, pad |-> FALSE] : l \in Range(lists[r].D)}

\* instance p is inside a call of deckard that passed the gates
InDeckard(p) ==
    pc[p] \in {"process_dark_files", "cmp2dark", "dark_safeguard", "dark_rows",
               "process_miss_files", "miss_safeguard", "miss_rows"}

\* C1: every quarantine request issued for an endpoint is for a path that is
\* in the dark list of the run that was the latest one and in the dark list
\* of a comparison run of the same endpoint that is at least dark_min_age
\* whole days older; a path dark in only one of the two scans is never
\* quarantined.
C1_QuarantineOnlyConfirmed ==
    \A q \in quarantined :
        /\ q.latest_run \in RunsOfEndpoint(q.rse)
        /\ q.oldenough_run \in RunsOfEndpoint(q.rse)
        /\ AgeDays(TsOfRun(q.oldenough_run), TsOfRun(q.latest_run)) >= cfg.dark_min_age
        /\ q.name \in DarkSet(q.latest_run)
        /\ q.name \in DarkSet(q.oldenough_run)

\* a request was issued although the latest run lists a path that the
\* comparison run does not
C1_Witness ==
    \E q \in quarantined :
        /\ DarkSet(q.latest_run) \ DarkSet(q.oldenough_run) # {}
        /\ DarkSet(q.oldenough_run) \ DarkSet(q.latest_run) # {}


\* max of the scanner file count and the two catalog-dump file counts
TotalKnownFiles(r) ==
    LET doc == stats[r]
        counts == {IF "scanner" \in DOMAIN doc THEN doc["scanner"].total_files ELSE 0,
                   IF "dbdump_before" \in DOMAIN doc THEN doc["dbdump_before"].files ELSE 0,
                   IF "dbdump_after" \in DOMAIN doc THEN doc["dbdump_after"].files ELSE 0}
    IN  CHOOSE m \in counts : \A c \in counts : c <= m

\* count / total < fraction, for a fraction <<numerator, denominator>>
FractionBelow(count, total, fraction) == count * fraction[2] < fraction[1] * total

\* WasAttempted
Attempted(st, r) == "cc_dark" \in DOMAIN st[r] \/ "cc_miss" \in DOMAIN st[r]

\* the most recent run of an endpoint that has runs
LatestRun(rse) ==
    CHOOSE r \in RunsOfEndpoint(rse) :
        \A r2 \in RunsOfEndpoint(rse) : ~TsLess(TsOfRun(r), TsOfRun(r2))

\* the runs of the endpoint of r that are at least dark_min_age days older
OldEnough(r) ==
    {x \in RunsOfEndpoint(EndpointOfRun(r)) :
        AgeDays(TsOfRun(x), TsOfRun(r)) >= cfg.dark_min_age}

\* the number of confirmed dark files of the pair (latest, comparison)
ConfirmedCount(latest, comparison) == Cardinality(DarkSet(latest) \cap DarkSet(comparison))

\* the failures of the collaborator calls made for one path, and the
\* failures raised while one path is processed
CollaboratorErrors == {"resolve_error", "quarantine_error", "invalidation_error"}
ItemErrors == CollaboratorErrors \cup {"NameError_models"}

\* the phase an instance is in, by the section it holds in cc_stats
PhaseOf(p) == IF "initial_dark_files" \in DOMAIN loc[p].cc_stats THEN "cc_dark" ELSE "cc_miss"

\* C2: with force_proceed false, a call of deckard for an endpoint whose
\* latest run was already attempted issues no request, leaves every status
\* record unchanged and returns at once; every call of deckard that passed
\* the gates leaves the latest run attempted, and a run stays attempted.
C2_Idempotent ==
    [][ /\ \A p \in active :
            /\ ( /\ pc[p] = "for"
                 /\ loc[p].idx <= Len(RSES)
                 /\ loc'[p] # loc[p]
                 /\ ~cfg.force_proceed
                 /\ RunsOfEndpoint(RSES[loc[p].idx]) # {}
                 /\ Attempted(stats, LatestRun(RSES[loc[p].idx])) )
               => ( /\ stats' = stats
                    /\ dellist' = dellist
                    /\ quarantined' = quarantined
                    /\ invalidated' = invalidated
                    /\ pc'[p] = "for" )
            /\ (InDeckard(p) /\ pc'[p] \in {"for", "except"})
               => Attempted(stats', loc[p].latest_run)
        /\ \A r \in DOMAIN stats : Attempted(stats, r) => Attempted(stats', r)
      ]_vars

\* deckard is about to be called again for an endpoint whose latest run has
\* received requests in an earlier call
C2_Witness ==
    \E p \in active :
        /\ pc[p] = "for"
        /\ loc[p].idx <= Len(RSES)
        /\ ~cfg.force_proceed
        /\ RunsOfEndpoint(RSES[loc[p].idx]) # {}
        /\ Attempted(stats, LatestRun(RSES[loc[p].idx]))
        /\ \E q \in quarantined : q.latest_run = LatestRun(RSES[loc[p].idx])
        /\ \E i \in invalidated : i.latest_run = LatestRun(RSES[loc[p].idx])

\* C3: with force_proceed false, a run whose confirmed-dark count is not
\* below the dark fraction of its known files never receives a quarantine
\* request, and a run whose missing count is not below the missing fraction
\* never receives an invalidation request.
C3_TrippedNoRequests ==
    ~cfg.force_proceed =>
        \A r \in DOMAIN stats :
            /\ ( /\ TotalKnownFiles(r) > 0
                 /\ "cc_dark" \in DOMAIN stats[r]
                 /\ ~FractionBelow(ConfirmedCount(r, stats[r]["cc_dark"].x_check_run),
                                   TotalKnownFiles(r), cfg.dark_threshold_percent) )
               => \A q \in quarantined : q.latest_run # r
            /\ ( /\ TotalKnownFiles(r) > 0
                 /\ ~FractionBelow(Len(lists[r].M), TotalKnownFiles(r),
                                   cfg.miss_threshold_percent) )
               => \A i \in invalidated : i.latest_run # r

\* the missing phase tripped after the dark phase of the same call had
\* issued its requests
C3_Witness ==
    /\ ~cfg.force_proceed
    /\ \E p \in active :
        /\ pc[p] = "except"
        /\ loc[p].exc \notin ItemErrors
        /\ PhaseOf(p) = "cc_miss"
        /\ \E q \in quarantined : q.latest_run = loc[p].latest_run
        /\ ~FractionBelow(Len(lists[loc[p].latest_run].M),
                          TotalKnownFiles(loc[p].latest_run), cfg.miss_threshold_percent)

Newest(S) == CHOOSE r \in S : \A r2 \in S : ~TsLess(TsOfRun(r), TsOfRun(r2))

\* C5: the comparison run chosen by deckard is the newest run of the
\* endpoint whose age in whole days relative to the latest run is at least
\* dark_min_age (a run exactly dark_min_age days older qualifies), and none
\* is chosen only if there is no such run.
C5_NewestAtLeastMinAge ==
    \A p \in active :
        InDeckard(p) =>
            IF OldEnough(loc[p].latest_run) = {}
            THEN loc[p].oldenough_run = None
            ELSE loc[p].oldenough_run = Newest(OldEnough(loc[p].latest_run))

\* C6: a run without a run of its endpoint that is at least dark_min_age
\* days older never gets a cc_dark or cmp2dark record, a deletion list or a
\* quarantine request; the comparison run of every dark phase that has run
\* or is running is at least dark_min_age days older than the latest run.
C6_NoComparisonNoDarkPhase ==
    /\ \A r \in DOMAIN stats :
        /\ OldEnough(r) = {}
           => ( /\ "cc_dark" \notin DOMAIN stats[r]
                /\ "cmp2dark" \notin DOMAIN stats[r]
                /\ r \notin DOMAIN dellist
                /\ \A q \in quarantined : q.latest_run # r )
        /\ "cc_dark" \in DOMAIN stats[r] => stats[r]["cc_dark"].x_check_run \in OldEnough(r)
        /\ "cmp2dark" \in DOMAIN stats[r] => stats[r]["cmp2dark"].old_list \in OldEnough(r)
    /\ \A p \in active :
        pc[p] \in {"process_dark_files", "cmp2dark", "dark_safeguard", "dark_rows"}
            => loc[p].oldenough_run \in OldEnough(loc[p].latest_run)

\* a latest run that has an older run, but none old enough, went through
\* the missing phase
C6_Witness ==
    \E r \in DOMAIN stats :
        /\ OldEnough(r) = {}
        /\ \E x \in RunsOfEndpoint(EndpointOfRun(r)) : TsLess(TsOfRun(x), TsOfRun(r))
        /\ "cc_miss" \in DOMAIN stats[r]
        /\ stats[r]["cc_miss"].status = "done"

C9_AbortRecorded ==
    ~cfg.force_proceed =>
        \A r \in DOMAIN stats :
            (\A p \in active : ~(InDeckard(p) /\ loc[p].latest_run = r))
            => /\ ( /\ "cc_dark" \in DOMAIN stats[r]
                    /\ ~FractionBelow(ConfirmedCount(r, stats[r]["cc_dark"].x_check_run),
                                      TotalKnownFiles(r), cfg.dark_threshold_percent) )
                  => ( /\ stats[r]["cc_dark"].status = "ABORTED"
                       /\ stats[r]["cc_dark"].confirmed_dark_files = 0
                       /\ stats[r]["cc_dark"].aborted_reason.what = "dark"
                       /\ stats[r]["cc_dark"].aborted_reason.hundredths * TotalKnownFiles(r)
                            = 10000 * ConfirmedCount(r, stats[r]["cc_dark"].x_check_run) )
               /\ ( /\ "cc_miss" \in DOMAIN stats[r]
                    /\ ~FractionBelow(Len(lists[r].M), TotalKnownFiles(r),
                                      cfg.miss_threshold_percent) )
                  => ( /\ stats[r]["cc_miss"].status = "ABORTED"
                       /\ stats[r]["cc_miss"].confirmed_miss_files = 0
                       /\ stats[r]["cc_miss"].aborted_reason.what = "miss"
                       /\ stats[r]["cc_miss"].aborted_reason.hundredths * TotalKnownFiles(r)
                            = 10000 * Len(lists[r].M) )

\* C10: with force_proceed true, the safeguard step of either phase always
\* lets the phase proceed to its requests, whatever the fraction, and an
\* attempted latest run with known files is processed again.
C10_ForceAlwaysProceeds ==
    [][ \A p \in active :
          cfg.force_proceed =>
            /\ (pc[p] = "dark_safeguard" /\ pc'[p] # "dark_safeguard") => pc'[p] = "dark_rows"
            /\ (pc[p] = "miss_safeguard" /\ pc'[p] # "miss_safeguard") => pc'[p] = "miss_rows"
            /\ ( /\ pc[p] = "for"
                 /\ loc[p].idx <= Len(RSES)
                 /\ loc'[p] # loc[p]
                 /\ RunsOfEndpoint(RSES[loc[p].idx]) # {}
                 /\ TotalKnownFiles(LatestRun(RSES[loc[p].idx])) > 0 )
               => InDeckard(p)'
      ]_vars


\* the safeguard of a phase of run r tripped: the phase has its record and
\* its count is not below its fraction of the known files
Tripped(r) ==
    /\ TotalKnownFiles(r) > 0
    /\ \/ /\ "cc_dark" \in DOMAIN stats[r]
          /\ ~FractionBelow(ConfirmedCount(r, stats[r]["cc_dark"].x_check_run),
                            TotalKnownFiles(r), cfg.dark_threshold_percent)
       \/ /\ "cc_miss" \in DOMAIN stats[r]
          /\ ~FractionBelow(Len(lists[r].M), TotalKnownFiles(r),
                            cfg.miss_threshold_percent)

\* instance p takes the step of deckard for the endpoint at its index
VisitsEndpoint(p) ==
    /\ pc[p] = "for"
    /\ loc[p].idx <= Len(RSES)
    /\ loc'[p] # loc[p]
    /\ RunsOfEndpoint(RSES[loc[p].idx]) # {}

\* C11: once the processing of an endpoint is over, every cc_dark and
\* cc_miss record of the run it processed has status done or ABORTED; none
\* is left at started.
C11_PhaseOutcomePersisted ==
    \A r \in DOMAIN stats :
        (\A p \in active : ~(InDeckard(p) /\ loc[p].latest_run = r))
            => \A k \in {"cc_dark", "cc_miss"} :
                    k \in DOMAIN stats[r] => stats[r][k].status \in {"done", "ABORTED"}

\* C12 as stated: with force_proceed false, the call of deckard for an
\* endpoint whose latest run had a phase stopped by the safeguard enters
\* the phases of that run again.
C12_AbortRetried ==
    [][ \A p \in active :
          (VisitsEndpoint(p) /\ ~cfg.force_proceed
             /\ Tripped(LatestRun(RSES[loc[p].idx])))
            => (InDeckard(p)' /\ loc'[p].latest_run = LatestRun(RSES[loc[p].idx]))
      ]_vars

\* C12 amended: a run that had a phase stopped by the safeguard is not
\* retried by itself.  With force_proceed false the call of deckard for
\* its endpoint returns at once, with no record written and no request
\* issued, as long as it is the latest run; with force_proceed true the
\* call enters the phases of that run again.
C12_TrippedNotRetried ==
    [][ \A p \in active :
          (VisitsEndpoint(p) /\ Tripped(LatestRun(RSES[loc[p].idx])))
            => IF cfg.force_proceed
               THEN InDeckard(p)' /\ loc'[p].latest_run = LatestRun(RSES[loc[p].idx])
               ELSE /\ pc'[p] = "for"
                    /\ loc'[p].idx = loc[p].idx + 1
                    /\ stats' = stats
                    /\ dellist' = dellist
                    /\ quarantined' = quarantined
                    /\ invalidated' = invalidated
      ]_vars

\* a later cycle is about to visit an endpoint whose latest run had its
\* missing phase stopped by the safeguard, with force_proceed false
C12_Witness ==
    \E p \in active :
        /\ pc[p] = "for"
        /\ loc[p].idx <= Len(RSES)
        /\ ~cfg.force_proceed
        /\ RunsOfEndpoint(RSES[loc[p].idx]) # {}
        /\ Tripped(LatestRun(RSES[loc[p].idx]))
        /\ "cc_miss" \in DOMAIN stats[LatestRun(RSES[loc[p].idx])]

\* C13: every call of deckard that passed the gates has written a cc_miss
\* record for its run by the time it is over, whatever happened to the dark
\* phase (skipped, completed or stopped by the safeguard).
C13_MissAlwaysAttempted ==
    [][ \A p \in active :
          (InDeckard(p) /\ ~InDeckard(p)')
            => "cc_miss" \in DOMAIN stats'[loc[p].latest_run]
      ]_vars

\* C14: a run without known files (the maximum of the three file counts is
\* 0) never gets a cc_dark, cc_miss or cmp2dark record, a deletion list or
\* a request, and the call of deckard for an endpoint whose latest run has
\* no known files returns at once to the loop over the endpoints, for
\* either value of force_proceed.
C14_ZeroKnownFilesSkipped ==
    /\ [](\A r \in DOMAIN stats :
            TotalKnownFiles(r) = 0
                => /\ DOMAIN stats[r] \cap {"cc_dark", "cc_miss", "cmp2dark"} = {}
                   /\ r \notin DOMAIN dellist
                   /\ \A q \in quarantined : q.latest_run # r
                   /\ \A i \in invalidated : i.latest_run # r)
    /\ [][ \A p \in active :
            (VisitsEndpoint(p) /\ TotalKnownFiles(LatestRun(RSES[loc[p].idx])) = 0)
                => /\ pc'[p] = "for"
                   /\ loc'[p].idx = loc[p].idx + 1
                   /\ loc'[p].exc = "none"
                   /\ stats' = stats
                   /\ dellist' = dellist
                   /\ quarantined' = quarantined
                   /\ invalidated' = invalidated
         ]_vars

\* with force_proceed true, the loop has gone past the first endpoint, whose
\* latest run has no known files
C14_Witness ==
    \E p \in active :
        /\ pc[p] = "for"
        /\ loc[p].idx = 2
        /\ cfg.force_proceed
        /\ RunsOfEndpoint(RSE_X) # {}
        /\ TotalKnownFiles(LatestRun(RSE_X)) = 0


\* the paths for which instance p has made a call of kind op in the call of
\* deckard it is in, in the order of the calls
IssuedNames(p, op) ==
    LET IsOp(c) == c.op = op
        calls == SelectSeq(loc[p].issued, IsOp)
    IN  [j \in 1..Len(calls) |-> calls[j].name]

\* a sequence without repetition
NoDuplicates(s) == \A i, j \in 1..Len(s) : s[i] = s[j] => i = j

\* C15: when the dark phase has gone through all rows of its batch (it
\* proceeded and no call failed), the quarantine calls of this phase are
\* one for each path that is in the dark list of the latest run and in the
\* dark list of the comparison run, and no other; each is a recorded
\* request; the cc_dark record gets status done and confirmed_dark_files
\* equal to the number of these paths.
C15_DarkBatchExact ==
    [][ \A p \in active :
          (pc[p] = "dark_rows" /\ pc'[p] \notin {"dark_rows", "except"})
            => LET r == loc[p].latest_run
                   confirmed == DarkSet(r) \cap DarkSet(loc[p].oldenough_run)
                   names == IssuedNames(p, "quarantine")
               IN  /\ Range(names) = confirmed
                   /\ NoDuplicates(names)
                   /\ Len(loc[p].issued) = Len(names)
                   /\ \A n \in confirmed :
                        [rse |-> EndpointOfRun(r), name |-> n, latest_run |-> r,
                         oldenough_run |-> loc[p].oldenough_run] \in quarantined
                   /\ stats'[r]["cc_dark"].status = "done"
                   /\ stats'[r]["cc_dark"].confirmed_dark_files = Cardinality(confirmed)
      ]_vars

\* a dark phase ended with two of two dark files confirmed and quarantined
C15_Witness ==
    \E p \in active :
        /\ pc[p] = "process_miss_files"
        /\ Len(loc[p].issued) = 2
        /\ "cc_dark" \in DOMAIN stats[loc[p].latest_run]
        /\ stats[loc[p].latest_run]["cc_dark"].status = "done"
        /\ stats[loc[p].latest_run]["cc_dark"].confirmed_dark_files = 2

\* C16: when the missing phase proceeds and no collaborator call fails, the
\* phase ends with one invalidation call for each line of the missing list
\* of the latest run, in the order of the list and no other, and with the
\* cc_miss record at status done with a count equal to the number of calls.
C16_MissBatchExact ==
    [][ \A p \in active :
          ( /\ pc[p] = "miss_rows"
            /\ pc'[p] # "miss_rows"
            /\ loc'[p].exc \notin CollaboratorErrors )
            => LET r == loc[p].latest_run
               IN  /\ stats'[r]["cc_miss"].status = "done"
                   /\ IssuedNames(p, "invalidate") = lists[r].M
                   /\ stats'[r]["cc_miss"].confirmed_miss = Len(lists[r].M)
      ]_vars


(***************************************************************************)
(* cmp2dark on its own: the function is called on the dark lists of two    *)
(* runs, in either order and any number of times.  The lists are all the   *)
(* sequences of at most MaxLen lines, with repeated and padded lines.      *)
(***************************************************************************)
Lines == {Line(n) : n \in Names} \cup {Padded(n) : n \in Names}
ListsUpTo(n) == UNION {[1..k -> Lines] : k \in 0..n}

CmpRuns == {RunName(RSE_X, <<1, 0>>), RunName(RSE_X, <<1, 12>>)}

\* a directory with two runs and no daemon
InitDirect(runs) ==
    /\ DOMAIN stats = runs
    /\ DOMAIN lists = runs
    /\ dellist = <<>>
    /\ quarantined = {}
    /\ invalidated = {}
    /\ graceful_stop = FALSE
    /\ cfg = [once |-> TRUE, force_proceed |-> FALSE, dark_min_age |-> 1,
              dark_threshold_percent |-> Half, miss_threshold_percent |-> Half]
    /\ scans = 0
    /\ active = {}
    /\ pc = [p \in Instances |-> "off"]
    /\ loc = [p \in Instances |-> NoLocals]
    /\ alive = [p \in Instances |-> [live |-> FALSE, died |-> 0]]
    /\ ret = NoCall

InitCmp ==
    /\ stats = [r \in CmpRuns |-> ScanDoc]
    /\ lists \in [CmpRuns -> [D : ListsUpTo(MaxLen), M : {<<>>}]]
    /\ InitDirect(CmpRuns)

\* cmp2dark(new_list, old_list, comm_list, stats_file) for the dark lists of
\* two runs, the output and the status document being those of run new
Cmp2darkCall(new, old) ==
    LET my_stats == [new_list |-> new, old_list |-> old, out_list |-> new,
                     status |-> "started"]
        st1 == Stats_save(stats, new, [cmp2dark |-> my_stats])
    IN  /\ dellist' = (new :> cmp2dark_out(lists[new].D, lists[old].D)) @@ dellist
        /\ stats' = Stats_save(st1, new, [cmp2dark |-> [my_stats EXCEPT !.status = "done"]])
        /\ ret' = [call |-> "cmp2dark", args |-> <<new, old>>, raised |-> "none",
                   value |-> <<>>]
        /\ UNCHANGED <<lists, quarantined, invalidated, graceful_stop, cfg, scans,
                       active, pc, loc, alive>>

NextCmp == \E new, old \in CmpRuns : new # old /\ Cmp2darkCall(new, old)

SpecCmp == InitCmp /\ [][NextCmp]_vars

\* C17: the list cmp2dark has written for a run holds exactly the lines
\* that, trimmed, are in both dark lists it was given, each once and in
\* ascending order; the two orders of the arguments give the same list, and
\* a further call on the same lists leaves the list as it is.
C17_IntersectionSortedStable ==
    /\ [](\A r \in DOMAIN dellist :
            LET out == dellist[r]
                old == stats[r]["cmp2dark"].old_list
            IN  /\ Range(out) = DarkSet(r) \cap DarkSet(old)
                /\ \A i, j \in 1..Len(out) : i < j => out[i].name < out[j].name
                /\ old \in DOMAIN dellist /\ stats[old]["cmp2dark"].old_list = r
                     => dellist[old] = out)
    /\ [][ \A r \in DOMAIN dellist :
            stats'[r]["cmp2dark"].old_list = stats[r]["cmp2dark"].old_list
                => dellist'[r] = dellist[r] ]_vars

\* the function was called in both orders on a list in descending order with
\* a padded line and a list of the same paths in ascending order, and wrote
\* two lines
C17_Witness ==
    \E a \in DOMAIN dellist, b \in DOMAIN dellist :
        /\ a # b
        /\ Len(dellist[a]) = 2
        /\ lists[a].D[1].name > lists[a].D[2].name
        /\ \E i \in 1..Len(lists[a].D) : lists[a].D[i].pad
        /\ Len(lists[b].D) = 2
        /\ lists[b].D[1].name < lists[b].D[2].name
        /\ ret.args = <<a, b>>


(***************************************************************************)
(* Stats.save, was_cc_attempted and the listings on their own, over a      *)
(* directory whose status files may be of size 0 or hold text that is not  *)
(* JSON.                                                                   *)
(***************************************************************************)
FileRuns ==
    {RunName(RSE_X, <<1, 0>>), RunName(RSE_X, <<2, 0>>), RunName(RSE_XY, <<1, 0>>)}

\* the section a phase writes when it starts
StartedSection == [status |-> "started"]

\* a document the daemon has written a section to
AttemptedDoc == dict_update(ScanDoc, [cc_miss |-> StartedSection])

Contents == {ZeroByte, Garbage, ScanDoc, AttemptedDoc}

InitFiles ==
    /\ stats \in [FileRuns -> Contents]
    /\ lists = [r \in FileRuns |-> [D |-> <<>>, M |-> <<>>]]
    /\ InitDirect(FileRuns)

\* the outcome of a call: what it raised, or what it returned
Raised(call, args, exc) == [call |-> call, args |-> args, raised |-> exc, value |-> <<>>]
Returned(call, args, value) == [call |-> call, args |-> args, raised |-> "none", value |-> value]

\* stats = Stats(path); stats["cc_miss"] = {...}: __setitem__ calls save
SaveCall(r) ==
    /\ IF Stats_save_raises(stats, r)
       THEN /\ ret' = Raised("Stats.save", <<r>>, "JSONDecodeError")
            /\ UNCHANGED stats
       ELSE /\ stats' = Stats_save(stats, r, [cc_miss |-> StartedSection])
            /\ ret' = Returned("Stats.save", <<r>>, <<>>)
    /\ UNCHANGED <<lists, dellist, quarantined, invalidated, graceful_stop, cfg,
                   scans, active, pc, loc, alive>>

\* was_cc_attempted(stats_file): open, json.loads, test of the two keys
AttemptedCall(r) ==
    /\ ret' = IF json_loads_raises(stats[r])
              THEN Raised("was_cc_attempted", <<r>>, "JSONDecodeError")
              ELSE Returned("was_cc_attempted", <<r>>, <<was_cc_attempted(stats, r)>>)
    /\ UNCHANGED <<stats, lists, dellist, quarantined, invalidated, graceful_stop,
                   cfg, scans, active, pc, loc, alive>>

\* list_runs(path, rse)
ListRunsCall(rse) ==
    /\ ret' = Returned("list_runs", <<rse>>, list_runs(stats, rse, 0))
    /\ UNCHANGED <<stats, lists, dellist, quarantined, invalidated, graceful_stop,
                   cfg, scans, active, pc, loc, alive>>

\* list_unprocessed_runs calls was_cc_attempted for every file of size above
\* 0 of the endpoint
list_unprocessed_runs_raises(st, rse) ==
    \E run \in RunsOf(st, rse) : json_loads_raises(st[run])

\* list_unprocessed_runs(path, rse)
ListUnprocessedCall(rse) ==
    /\ ret' = IF list_unprocessed_runs_raises(stats, rse)
              THEN Raised("list_unprocessed_runs", <<rse>>, "JSONDecodeError")
              ELSE Returned("list_unprocessed_runs", <<rse>>,
                            <<list_unprocessed_runs(stats, rse)>>)
    /\ UNCHANGED <<stats, lists, dellist, quarantined, invalidated, graceful_stop,
                   cfg, scans, active, pc, loc, alive>>

NextFiles ==
    \/ \E r \in DOMAIN stats : SaveCall(r)
    \/ \E r \in DOMAIN stats : AttemptedCall(r)
    \/ \E i \in 1..Len(RSES) : ListRunsCall(RSES[i])
    \/ \E i \in 1..Len(RSES) : ListUnprocessedCall(RSES[i])

SpecFiles == InitFiles /\ [][NextFiles]_vars

\* the runs of an endpoint whose status file is of the given contents
RunsWith(rse, contents) == {r \in RunsOfEndpoint(rse) : stats[r] \in contents}

AllTerminated ==
    \A p \in active : pc[p] = "terminated" /\ alive[p].died = 1 /\ ~alive[p].live

\* the steps under a set flag: no cycle is started; the loop over the
\* endpoints goes on to its end; the thread does not leave a phase except
\* at the end of its batch or by an exception
StopStep(p) ==
    /\ (pc[p] = "loop" /\ pc'[p] # "loop") => pc'[p] = "die"
    /\ (pc[p] = "for" /\ pc'[p] # "for")
         => IF loc[p].idx <= Len(RSES) THEN InDeckard(p)' ELSE pc'[p] \in {"loop", "die"}
    /\ (InDeckard(p) /\ pc'[p] # pc[p])
         => /\ InDeckard(p)' \/ pc'[p] \in {"for", "except"}
            /\ pc'[p] = "except" => loc'[p].exc # "none"
            /\ (pc[p] \in {"dark_rows", "miss_rows"} /\ pc'[p] # "except")
                 => loc[p].rows = <<>>

C20_OncePassOnce ==
    /\ [](\A p \in active :
            /\ alive[p].died <= 1
            /\ pc[p] = "terminated" <=> alive[p].died = 1)
    /\ [][ cfg.once =>
            \A p \in active :
                /\ (pc[p] # "loop" /\ pc'[p] = "loop") => pc[p] = "start"
                /\ (pc[p] = "except" /\ pc'[p] # "except") => pc'[p] = "die"
                /\ (pc[p] = "for" /\ pc'[p] # "for" /\ loc[p].idx > Len(RSES))
                     => pc'[p] = "die"
                /\ (pc[p] = "die" /\ pc'[p] # "die")
                     => pc'[p] = "terminated" /\ alive'[p].died = alive[p].died + 1
         ]_vars
    /\ cfg.once ~> AllTerminated

\* a run-once instance has ended with one call of die after a pass that
\* raised and left a phase record at started, the flag not being set
C20_Witness ==
    \E p \in active :
        /\ cfg.once
        /\ ~graceful_stop
        /\ pc[p] = "terminated"
        /\ alive[p].died = 1
        /\ loc[p].idx = 1
        /\ \E r \in RunsOfEndpoint(RSE_X) :
              "cc_miss" \in DOMAIN stats[r] /\ stats[r]["cc_miss"].status = "started"


\* C21: a step changes the status record of a run only while an instance is
\* inside deckard for the endpoint of that run, and the run is the most
\* recent one of exactly that endpoint; no record disappears; the records of
\* the older runs and of the runs of every other endpoint (the endpoint
\* whose name is this name, an underscore and more among them) stay as they
\* are; the latest run and the comparison run that deckard chooses are runs
\* of exactly its endpoint, the latest being the most recent one.
C21_OnlyLatestRecordModified ==
    [][ /\ DOMAIN stats \subseteq DOMAIN stats'
        /\ \A r \in DOMAIN stats :
             stats'[r] # stats[r]
               => \E p \in active :
                    /\ InDeckard(p)
                    /\ r = loc[p].latest_run
                    /\ r = LatestRun(loc[p].rse)
        /\ \A p \in active :
             (pc[p] = "for" /\ InDeckard(p)')
               => /\ loc'[p].latest_run = LatestRun(RSES[loc[p].idx])
                  /\ loc'[p].oldenough_run # None
                       => loc'[p].oldenough_run
                            \in RunsOfEndpoint(RSES[loc[p].idx]) \ {loc'[p].latest_run}
      ]_vars

\* the dark phase of the first endpoint has written its record into the
\* latest of several runs, the glob of the first endpoint matches a run of
\* the second endpoint too, and no other record has a phase section
C21_Witness ==
    \E p \in active :
        /\ InDeckard(p)
        /\ loc[p].rse = RSE_X
        /\ Cardinality(RunsOfEndpoint(RSE_X)) >= 2
        /\ "cc_dark" \in DOMAIN stats[loc[p].latest_run]
        /\ stats[loc[p].latest_run]["cc_dark"].status = "done"
        /\ glob_stats(DOMAIN stats, RSE_X) \cap RunsOfEndpoint(RSE_XY) # {}
        /\ \A r \in DOMAIN stats \ {loc[p].latest_run} : ~Attempted(stats, r)


\* the keys the daemon writes into a status record, and the fields of the
\* document a phase writes when it starts
PhaseKeys == {"cmp2dark", "cc_dark", "cc_miss"}
FreshFields(k) ==
    IF k = "cc_dark"
    THEN {"initial_dark_files", "confirmed_dark_files", "x_check_run", "status"}
    ELSE IF k = "cc_miss"
    THEN {"initial_miss_files", "confirmed_miss_files", "x_check_run", "status"}
    ELSE {"new_list", "old_list", "out_list", "status"}

\* C22: with one writer, a step that changes a status record writes one
\* phase key: the record keeps every other key it had, with the document it
\* had (scanner, dbdump_before, dbdump_after and the sections written through
\* another Stats object), and gains no key but this one; the document of the
\* key is replaced as a whole: a document written with status started has
\* the fields of a fresh record and nothing of the document the key had.
C22_PhaseWriteKeepsOtherKeys ==
    [][ \A r \in DOMAIN stats :
            stats'[r] # stats[r]
              => \E k \in PhaseKeys :
                    /\ DOMAIN stats'[r] = DOMAIN stats[r] \cup {k}
                    /\ \A k2 \in DOMAIN stats[r] \ {k} : stats'[r][k2] = stats[r][k2]
                    /\ stats'[r][k].status = "started"
                         => DOMAIN stats'[r][k] = FreshFields(k)
      ]_vars

\* in a second pass with force_proceed the dark phase has put a started
\* record over the one of the first pass, while the record still holds the
\* scanner's keys, the section written by cmp2dark and the finished section
\* of the missing phase
C22_Witness ==
    \E p \in active :
        /\ cfg.force_proceed
        /\ pc[p] = "cmp2dark"
        /\ LET doc == stats[loc[p].latest_run]
           IN  /\ {"scanner", "dbdump_before", "cmp2dark", "cc_dark", "cc_miss"}
                      \subseteq DOMAIN doc
               /\ doc["cc_dark"].status = "started"
               /\ doc["cmp2dark"].status = "done"
               /\ doc["cc_miss"].status = "done"


(***************************************************************************)
(* The daemon with a process that can be killed: the process ends at any   *)
(* point inside deckard, without handler and without die, and run() is     *)
(* called again on the directory as it is.                                 *)
(***************************************************************************)
Crash(p) ==
    /\ InDeckard(p)
    /\ pc' = [pc EXCEPT ![p] = "start"]
    /\ loc' = [loc EXCEPT ![p] = NoLocals]
    /\ alive' = [alive EXCEPT ![p].live = FALSE]
    /\ UNCHANGED <<stats, lists, dellist, quarantined, invalidated, graceful_stop,
                   cfg, ret, scans, active>>

NextCrash ==
    \/ Next
    \/ \E p \in active : Crash(p)

SpecCrash == Init /\ [][NextCrash]_vars

\* the requests issued so far with run r as the latest run
RequestsFor(r) ==
    {q \in quarantined : q.latest_run = r} \cup {q \in invalidated : q.latest_run = r}

\* no instance is inside deckard for run r
Idle(r) == \A p \in active : ~(InDeckard(p) /\ loc[p].latest_run = r)

\* C23: without force_proceed, a run whose record has a cc_dark or cc_miss
\* section and that no instance is processing (the processing ended, or it
\* was interrupted by an error or by the end of the process) is left alone
\* by every later step: no instance enters a phase for it, its record stays
\* as it is and no request is issued for it, whether or not a newer run
\* arrives.
C23_InterruptedNeverResumed ==
    [][ ~cfg.force_proceed
          => \A r \in DOMAIN stats :
                (Attempted(stats, r) /\ Idle(r))
                  => /\ Idle(r)'
                     /\ stats'[r] = stats[r]
                     /\ RequestsFor(r)' = RequestsFor(r)
      ]_vars

\* without force_proceed the process of a run-once daemon was killed
\* between two rows of the missing phase (after an error such a daemon ends
\* with die), the daemon runs again and has passed the endpoint of the run:
\* the record is still at started and the second path of the list has no
\* request
C23_Witness ==
    \E p \in active, r \in RunsOfEndpoint(RSE_X) :
        /\ ~cfg.force_proceed
        /\ cfg.once
        /\ r = LatestRun(RSE_X)
        /\ "cc_miss" \in DOMAIN stats[r]
        /\ stats[r]["cc_miss"].status = "started"
        /\ pc[p] = "for"
        /\ loc[p].idx = 2
        /\ Len(lists[r].M) = 2
        /\ Cardinality(RequestsFor(r)) = 1
        /\ alive[p].live
        /\ alive[p].died = 0


\* C24: the record of a phase is in the status file before the first
\* request of the phase: a step that issues a quarantine request for a run
\* finds the cc_dark section in the file of the run, a step that issues an
\* invalidation request finds the cc_miss section, each with status started;
\* so in every state each request issued is for a run that counts as
\* attempted.
C24_StartedBeforeFirstRequest ==
    /\ [](\A q \in quarantined \cup invalidated : Attempted(stats, q.latest_run))
    /\ [][ /\ \A q \in quarantined' \ quarantined :
                /\ "cc_dark" \in DOMAIN stats[q.latest_run]
                /\ stats[q.latest_run]["cc_dark"].status = "started"
           /\ \A q \in invalidated' \ invalidated :
                /\ "cc_miss" \in DOMAIN stats[q.latest_run]
                /\ stats[q.latest_run]["cc_miss"].status = "started"
         ]_vars

\* the first quarantine request of a run has been issued, the batch has more
\* rows, and the missing phase of the run has not begun
C24_Witness ==
    \E p \in active :
        /\ pc[p] = "dark_rows"
        /\ loc[p].rows # <<>>
        /\ Cardinality({q \in quarantined : q.latest_run = loc[p].latest_run}) = 1
        /\ stats[loc[p].latest_run]["cc_dark"].status = "started"
        /\ "cc_miss" \notin DOMAIN stats[loc[p].latest_run]


(***************************************************************************)
(* One or two daemon instances on the same directory, without              *)
(* force_proceed.  The steps of the instances interleave between the       *)
(* calls the actions stand for: the gate of deckard and the write of the   *)
(* started record are different steps.                                     *)
(***************************************************************************)
InitTwo ==
    /\ Init0
    /\ ~cfg.force_proceed
    /\ \/ /\ RunsOf(stats, RSE_X) = {RunName(RSE_X, <<1, 0>>)}
          /\ stats[RunName(RSE_X, <<1, 0>>)] = ScanDoc
          /\ lists[RunName(RSE_X, <<1, 0>>)] = [D |-> ScanDark, M |-> ScanMiss]
       \/ RunsOf(stats, RSE_X) = {RunName(RSE_X, FirstNoon), RunName(RSE_X, <<MaxDay, 12>>)}
    /\ active \in {{1}, Instances}
    /\ pc = [p \in Instances |-> IF p \in active THEN "start" ELSE "off"]
    /\ alive = [p \in Instances |-> [live |-> FALSE, died |-> 0]]

SpecTwo == InitTwo /\ [][Next]_vars

\* instance p makes call c in this step
Issues(p, c) == loc'[p].issued = Append(loc[p].issued, c)

\* the requests already issued for run r and path name
QuarantinedFor(r, name) == {q \in quarantined : q.latest_run = r /\ q.name = name}
InvalidatedFor(r, name) == {q \in invalidated : q.latest_run = r /\ q.name = name}

AgeRuns ==
    {RunName(RSE_X, ts) : ts \in {t \in Timestamps : t[2] = 12 \/ t = <<1, 0>>}}
        \cup {RunName(RSE_XY, <<2, 0>>)}

InitAge ==
    /\ \E S \in SUBSET AgeRuns :
          /\ stats \in [S -> {ZeroByte, ScanDoc}]
          /\ lists = [r \in S |-> [D |-> <<>>, M |-> <<>>]]
    /\ InitDirect(DOMAIN stats)

\* the dict returned by list_runs_by_age, as the sequence of its items in
\* iteration order
list_runs_by_age_items(st, rse, reffile) ==
    LET d == list_runs_by_age(st, rse, reffile)
    IN  [i \in 1..Len(d) |-> [path |-> d[i], age |-> fileagedays(d[i], reffile)]]

\* list_runs_by_age(path, rse, reffile)
ListRunsByAgeCall(rse, reffile) ==
    /\ ret' = Returned("list_runs_by_age", <<rse, reffile>>,
                       list_runs_by_age_items(stats, rse, reffile))
    /\ UNCHANGED <<stats, lists, dellist, quarantined, invalidated, graceful_stop,
                   cfg, scans, active, pc, loc, alive>>

NextAge == \E i \in 1..Len(RSES), reffile \in DOMAIN stats : ListRunsByAgeCall(RSES[i], reffile)

SpecAge == InitAge /\ [][NextAge]_vars

\* the items of the last call map each run of exactly the endpoint whose
\* file is not of size 0 to its age in whole days relative to the timestamp
\* of the reference run, each run once
MapsRunsToAge(v, rse, reffile) ==
    /\ {v[i].path : i \in 1..Len(v)} = RunsOfEndpoint(rse) \ RunsWith(rse, {ZeroByte})
    /\ \A i, j \in 1..Len(v) : v[i].path = v[j].path => i = j
    /\ \A i \in 1..Len(v) : v[i].age = AgeDays(TsOfRun(v[i].path), TsOfRun(reffile))

\* C26 as stated: the mapping has the runs of size above 0 of exactly the
\* endpoint with their ages in whole days, ordered descending by age (the
\* oldest run first).
C26_OldestFirst ==
    ret.call = "list_runs_by_age"
      => /\ MapsRunsToAge(ret.value, ret.args[1], ret.args[2])
         /\ \A i, j \in 1..Len(ret.value) : i < j => ret.value[i].age >= ret.value[j].age

\* C26 amended: the mapping has the runs of size above 0 of exactly the
\* endpoint with their ages in whole days relative to the reference run
\* (negative for a run after the reference run), ordered by path descending:
\* the newest run first, so the ages never decrease along the mapping.
C26_NewestFirst ==
    ret.call = "list_runs_by_age"
      => /\ MapsRunsToAge(ret.value, ret.args[1], ret.args[2])
         /\ \A i, j \in 1..Len(ret.value) :
               i < j => /\ TsLess(TsOfRun(ret.value[j].path), TsOfRun(ret.value[i].path))
                        /\ ret.value[i].age <= ret.value[j].age

\* a call for the first endpoint returned runs of three different ages, the
\* reference run among them, while the directory holds a file of size 0 of
\* the endpoint and a run of the second endpoint
C26_Witness ==
    /\ ret.call = "list_runs_by_age"
    /\ ret.args[1] = RSE_X
    /\ Len(ret.value) >= 3
    /\ ret.value[1].age = 0
    /\ ret.value[1].age < ret.value[2].age
    /\ ret.value[2].age < ret.value[3].age
    /\ RunsWith(RSE_X, {ZeroByte}) # {}
    /\ RunsWith(RSE_XY, {ScanDoc}) # {}

====
